---- MODULE Spec2Model ----
(***************************************************************************)
(* Model of the downtime analysis engine of Induct-Downtime                *)
(* (src/src/downtime_analyzer.py, class DowntimeAnalyzer).                 *)
(*                                                                         *)
(* Time is counted in ticks of 1/TicksPerSecond second, so that gaps that  *)
(* are not whole seconds (timedelta.total_seconds() is a float) are        *)
(* represented exactly.  A scan is a record with the four keys the         *)
(* analyzer reads; a key that is absent from the dict is the value Missing.*)
(***************************************************************************)
EXTENDS Integers, Sequences, FiniteSets, TLC

VARIABLES location_trackers, new_downtimes, raised, now, self_categories, query_result,
          retry, system_errors, consecutive_failed_scrapes, job

\* the state of the driver (InductDowntimeMonitor): system_errors, the
\* history variable consecutive_failed_scrapes (the failed scrapes since the
\* last scrape that gave records) and job, the record of what the latest
\* scheduled job did.  last_scrape_time and last_report_time are only ever
\* written and are left out.
driver_vars == <<system_errors, consecutive_failed_scrapes, job>>

\* the state outside the analyzer: the frame of MercuryScraper.scrape_with_retry
\* and the driver
outside_analyzer == <<retry, driver_vars>>

vars == <<location_trackers, new_downtimes, raised, now, self_categories, query_result,
          outside_analyzer>>

----
(* Program constants *)

\* resolution of the model's timestamps: ticks per second
TicksPerSecond == 2

\* DowntimeAnalyzer.__init__: break_threshold (seconds)
break_threshold == 780

\* _process_single_scan: "if downtime_seconds < 20"
minimum_tracked_seconds == 20

\* config['downtime']['categories']
categories ==
    << [name |-> "20-60",   min |-> 20,  max |-> 60],
       [name |-> "60-120",  min |-> 60,  max |-> 120],
       [name |-> "120-780", min |-> 120, max |-> 780] >>

----
(* Bounds of the model *)

\* longest batch handed to process_scans
MaxBatch == 2

\* most episodes the trackers hold altogether (process_scans is not taken
\* beyond it)
MaxEpisodes == 2

\* largest max_retries handed to scrape_with_retry
MaxRetries == 3

\* system_errors and consecutive_failed_scrapes are not taken beyond it
MaxErrors == 6

\* the wall clock (datetime.now()), in minutes, runs over 0..MaxClock
MaxClock == 1

----
(* Inputs *)

\* a key that is absent from the scan dict
Missing == "<missing>"
MissingTimestamp == 0 - 1

\* Python's None
None == "<None>"
NoScan == [timestamp |-> 0 - 1, tracking_id |-> None, status |-> None]
EmptyDict == [k \in {} |-> 0]

Locations == {"GA1", "GA2"}

\* scan instants in ticks: 0s, 19s, 20s, 60.5s, 800s
T0 == 0
T19 == 19 * TicksPerSecond
T20 == 20 * TicksPerSecond
T60h == 60 * TicksPerSecond + 1
T800 == 800 * TicksPerSecond

Scan(l, id, st, t) == [location |-> l, tracking_id |-> id, status |-> st, timestamp |-> t]

\* the well-formed events the scan source can deliver: GA1 has gaps of 19s,
\* 20s, 780s and 781s and two packages scanned at the same instant; GA2 has
\* a gap of 60.5s
ScanEvents ==
    { Scan("GA1", "T001", "INDUCTED", T0),
      Scan("GA1", "T002", "INDUCTED", T19),
      Scan("GA1", "T003", "STOW_BUFFER", T19),
      Scan("GA1", "T004", "INDUCT", T20),
      Scan("GA1", "T005", "AT_STATION", T800),
      Scan("GA2", "T006", "INDUCT", T0),
      Scan("GA2", "T007", "STOW_BUFFER", T60h) }

\* events that lack one key (a missing status is read at the same places as
\* a missing tracking_id)
MalformedEvents ==
    { Scan(Missing, "T008", "INDUCTED", T20),
      Scan("GA1", Missing, "INDUCTED", T20),
      Scan("GA1", "T008", "INDUCTED", MissingTimestamp) }

Events == ScanEvents \cup MalformedEvents

RECURSIVE SeqsUpTo(_, _)
SeqsUpTo(S, n) ==
    IF n = 0 THEN { <<>> }
    ELSE LET shorter == SeqsUpTo(S, n - 1)
         IN  shorter \cup { Append(s, x) : s \in { q \in shorter : Len(q) = n - 1 }, x \in S }

Batches == SeqsUpTo(Events, MaxBatch)

----
(* DowntimeAnalyzer *)

\* the value the defaultdict's factory builds for a new location
NewTracker ==
    [last_scan |-> NoScan, downtimes |-> <<>>, total_downtime |-> 0,
     category_counts |-> EmptyDict]

\* defaultdict(int): reading a key that was never incremented gives 0
CountOf(counts, c) == IF c \in DOMAIN counts THEN counts[c] ELSE 0

\* mutant of Increment: the count is set, not added to
Increment_Overwrite(counts, c) ==
    [k \in DOMAIN counts \cup {c} |-> IF k = c THEN 1 ELSE counts[k]]

\* tracker['category_counts'][category] += 1
Increment(counts, c) ==
    [k \in DOMAIN counts \cup {c} |-> IF k = c THEN CountOf(counts, c) + 1 ELSE counts[k]]

\* mutant of FirstMatch: the last category that contains the duration wins
RECURSIVE FirstMatch_LastWins(_, _, _)
FirstMatch_LastWins(cats, ticks, i) ==
    IF i > Len(cats) THEN 0
    ELSE LET later == FirstMatch_LastWins(cats, ticks, i + 1)
         IN  IF later > 0 THEN later
             ELSE IF cats[i].min * TicksPerSecond <= ticks /\ ticks <= cats[i].max * TicksPerSecond
                  THEN i
                  ELSE 0

RECURSIVE FirstMatch(_, _, _)
FirstMatch(cats, ticks, i) ==
    IF i > Len(cats) THEN 0
    ELSE IF cats[i].min * TicksPerSecond <= ticks /\ ticks <= cats[i].max * TicksPerSecond
         THEN i
         ELSE FirstMatch(cats, ticks, i + 1)

\* self.categories[0] on an empty list raises IndexError
IndexError == "<IndexError>"

\* _categorize_downtime(seconds) with seconds = ticks / TicksPerSecond
CategorizeDowntime(cats, ticks) ==
    LET i == FirstMatch(cats, ticks, 1)
    IN  IF i > 0 THEN cats[i].name
        ELSE IF cats = <<>> THEN IndexError
        ELSE IF ticks < cats[1].min * TicksPerSecond
             THEN "<" \o ToString(cats[1].min)
             ELSE ">" \o ToString(cats[Len(cats)].max)

\* mutant of LastScanOf: the status of the scan is not kept
LastScanOf_NoStatus(scan) ==
    [timestamp |-> scan.timestamp, tracking_id |-> scan.tracking_id, status |-> None]

\* the dict stored in tracker['last_scan']
LastScanOf(scan) ==
    [timestamp |-> scan.timestamp, tracking_id |-> scan.tracking_id, status |-> scan.status]

\* mutant of ExceedsBreakThreshold: the boundary is taken as a break
ExceedsBreakThreshold_Inclusive(ticks) == ticks >= break_threshold * TicksPerSecond

\* "if downtime_seconds > self.break_threshold"
ExceedsBreakThreshold(ticks) == ticks > break_threshold * TicksPerSecond

\* mutant of BelowMinimumTracked: a scan older than the last scan is not
\* taken as noise
BelowMinimumTracked_NotNegative(ticks) ==
    0 <= ticks /\ ticks < minimum_tracked_seconds * TicksPerSecond

\* mutant of BelowMinimumTracked: a gap of exactly 20s is taken as noise
BelowMinimumTracked_Inclusive(ticks) == ticks <= minimum_tracked_seconds * TicksPerSecond

\* "if downtime_seconds < 20"
BelowMinimumTracked(ticks) == ticks < minimum_tracked_seconds * TicksPerSecond

\* mutant of IntSeconds: rounded up
IntSeconds_RoundedUp(ticks) == (ticks + TicksPerSecond - 1) \div TicksPerSecond

\* int(downtime_seconds), for a non-negative number of ticks
IntSeconds(ticks) == ticks \div TicksPerSecond

\* the downtime_event dict
DowntimeEvent(location, last_scan, scan, ticks, clock) ==
    [location |-> location,
     downtime_seconds |-> IntSeconds(ticks),
     category |-> CategorizeDowntime(self_categories, ticks),
     start_timestamp |-> last_scan.timestamp,
     end_timestamp |-> scan.timestamp,
     start_tracking_id |-> last_scan.tracking_id,
     end_tracking_id |-> scan.tracking_id,
     start_status |-> last_scan.status,
     end_status |-> scan.status,
     detected_at |-> clock]

\* "# Update tracker": append, add the float gap, count, move last_scan
UpdateTracker(tracker, scan, event, ticks) ==
    [last_scan |-> LastScanOf(scan),
     downtimes |-> Append(tracker.downtimes, event),
     total_downtime |-> tracker.total_downtime + ticks,
     category_counts |-> Increment(tracker.category_counts, event.category)]

\* mutant of RecordLastScan: the scan becomes the last scan of every location
RecordLastScan_Everywhere(lt, location, scan) ==
    [l \in DOMAIN lt |-> [lt[l] EXCEPT !.last_scan = LastScanOf(scan)]]

\* tracker['last_scan'] = {...} on the paths that emit nothing
RecordLastScan(lt, location, scan) ==
    [lt EXCEPT ![location].last_scan = LastScanOf(scan)]

\* _process_single_scan: the result is the tracker map after the call, the
\* returned event (<<>> for None, else <<downtime_event>>) and whether the
\* call raised KeyError.  total_downtime is kept in ticks.
ProcessSingleScan(lt, scan, clock) ==
    IF scan.location = Missing \/ scan.timestamp = MissingTimestamp
    THEN [lt |-> lt, event |-> <<>>, raised |-> TRUE]
    ELSE
    LET location == scan.location
        \* self.location_trackers[location] creates the entry on first access
        lt1 == IF location \in DOMAIN lt THEN lt ELSE lt @@ (location :> NewTracker)
        tracker == lt1[location]
        \* scan['tracking_id'] and scan['status'] are read on every path,
        \* before the tracker is assigned to
        malformed == scan.tracking_id = Missing \/ scan.status = Missing
        downtime_ticks == scan.timestamp - tracker.last_scan.timestamp
        recorded == [lt |-> RecordLastScan(lt1, location, scan),
                     event |-> <<>>, raised |-> FALSE]
    IN  IF malformed
        THEN [lt |-> lt1, event |-> <<>>, raised |-> TRUE]
        ELSE IF tracker.last_scan = NoScan THEN recorded
        ELSE IF ExceedsBreakThreshold(downtime_ticks) THEN recorded
        ELSE IF BelowMinimumTracked(downtime_ticks) THEN recorded
        \* category = self._categorize_downtime(downtime_seconds) raises
        \* before the tracker is touched
        ELSE IF CategorizeDowntime(self_categories, downtime_ticks) = IndexError
             THEN [lt |-> lt1, event |-> <<>>, raised |-> TRUE]
        ELSE LET downtime_event ==
                     DowntimeEvent(location, tracker.last_scan, scan, downtime_ticks, clock)
             IN  [lt |-> [lt1 EXCEPT ![location] =
                            UpdateTracker(tracker, scan, downtime_event, downtime_ticks)],
                  event |-> <<downtime_event>>, raised |-> FALSE]

\* mutant of InsertByTimestamp: the scan is put last whatever its timestamp
InsertByTimestamp_AppendOnly(sorted, x) == Append(sorted, x)

\* sorted(scans, key=lambda x: x['timestamp']): stable, ties keep input order
RECURSIVE InsertByTimestamp(_, _)
InsertByTimestamp(sorted, x) ==
    IF sorted = <<>> THEN <<x>>
    ELSE IF sorted[Len(sorted)].timestamp <= x.timestamp
         THEN Append(sorted, x)
         ELSE Append(InsertByTimestamp(SubSeq(sorted, 1, Len(sorted) - 1), x),
                     sorted[Len(sorted)])

\* mutant of SortedScans: the batch is processed in its input order
SortedScans_Unsorted(scans) == scans

RECURSIVE SortedScans(_)
SortedScans(scans) ==
    IF scans = <<>> THEN <<>>
    ELSE InsertByTimestamp(SortedScans(SubSeq(scans, 1, Len(scans) - 1)), scans[Len(scans)])

\* mutant of ProcessLoop: a new episode is put in front of the returned list
RECURSIVE ProcessLoop_NewestFirst(_, _, _, _, _)
ProcessLoop_NewestFirst(lt, sorted, i, acc, clock) ==
    IF i > Len(sorted)
    THEN [lt |-> lt, new_downtimes |-> acc, raised |-> FALSE]
    ELSE LET r == ProcessSingleScan(lt, sorted[i], clock)
         IN  IF r.raised
             THEN [lt |-> r.lt, new_downtimes |-> <<>>, raised |-> TRUE]
             ELSE ProcessLoop_NewestFirst(r.lt, sorted, i + 1,
                                          r.event \o acc,
                                          clock)

\* the for loop of process_scans over sorted_scans[i..]
RECURSIVE ProcessLoop(_, _, _, _, _)
ProcessLoop(lt, sorted, i, acc, clock) ==
    IF i > Len(sorted)
    THEN [lt |-> lt, new_downtimes |-> acc, raised |-> FALSE]
    ELSE LET r == ProcessSingleScan(lt, sorted[i], clock)
         IN  IF r.raised
             THEN [lt |-> r.lt, new_downtimes |-> <<>>, raised |-> TRUE]
             ELSE ProcessLoop(r.lt, sorted, i + 1,
                              acc \o r.event,
                              clock)

\* mutant of ProcessScansResult: every call starts from an empty tracker map
ProcessScansResult_FromNoTrackers(lt, scans, clock) ==
    IF \E i \in 1..Len(scans) : scans[i].timestamp = MissingTimestamp
    THEN [lt |-> lt, new_downtimes |-> <<>>, raised |-> TRUE]
    ELSE ProcessLoop(EmptyDict, SortedScans(scans), 1, <<>>, clock)

\* process_scans(scans): the tracker map after the call, the returned
\* new_downtimes and whether the call raised
ProcessScansResult(lt, scans, clock) ==
    IF \E i \in 1..Len(scans) : scans[i].timestamp = MissingTimestamp
    THEN [lt |-> lt, new_downtimes |-> <<>>, raised |-> TRUE]
    ELSE ProcessLoop(lt, SortedScans(scans), 1, <<>>, clock)

RECURSIVE EpisodeCount(_, _)
EpisodeCount(lt, S) ==
    IF S = {} THEN 0
    ELSE LET l == CHOOSE x \in S : TRUE
         IN  Len(lt[l].downtimes) + EpisodeCount(lt, S \ {l})

WithinBounds(lt) == EpisodeCount(lt, DOMAIN lt) <= MaxEpisodes

\* mutant of ResetShiftData: the trackers are dropped with their locations
ResetShiftData_ForgetsLocations(lt) == EmptyDict

\* mutant of ResetShiftData: the last scan survives the reset
ResetShiftData_KeepsLastScan(lt) ==
    [l \in DOMAIN lt |-> [NewTracker EXCEPT !.last_scan = lt[l].last_scan]]

\* reset_shift_data: every known location gets a new tracker dict
ResetShiftData(lt) == [l \in DOMAIN lt |-> NewTracker]

----
(* DowntimeAnalyzer: read operations *)

\* tracker['last_scan']['timestamp'] if tracker['last_scan'] else None
\* (None is the timestamp of NoScan)
LastScanTime(tracker) ==
    IF tracker.last_scan /= NoScan THEN tracker.last_scan.timestamp ELSE NoScan.timestamp

\* mutant of AverageSeconds: the average is rounded up
AverageSeconds_RoundedUp(ticks, n) ==
    (ticks + TicksPerSecond * (IF n > 1 THEN n ELSE 1) - 1)
        \div (TicksPerSecond * (IF n > 1 THEN n ELSE 1))

\* int(total_downtime / max(1, n)), total_downtime in ticks
AverageSeconds(ticks, n) == ticks \div (TicksPerSecond * (IF n > 1 THEN n ELSE 1))

\* _get_location_summaries()
GetLocationSummaries(lt) ==
    [l \in DOMAIN lt |->
        [total_downtime |-> IntSeconds(lt[l].total_downtime),
         event_count |-> Len(lt[l].downtimes),
         category_counts |-> lt[l].category_counts,
         last_scan_time |-> LastScanTime(lt[l]),
         average_downtime |-> AverageSeconds(lt[l].total_downtime, Len(lt[l].downtimes))]]

\* mutant of OverThreshold: a total equal to the threshold is reported
OverThreshold_Inclusive(ticks, threshold) == ticks >= threshold * TicksPerSecond

\* "if tracker['total_downtime'] > threshold", threshold in seconds
OverThreshold(ticks, threshold) == ticks > threshold * TicksPerSecond

\* check_shift_end_alerts(threshold): the entries of the returned list (their
\* order is the dict's insertion order, which location_trackers does not keep)
CheckShiftEndAlerts(lt, threshold) ==
    { [location |-> l,
       total_downtime |-> IntSeconds(lt[l].total_downtime),
       threshold |-> threshold,
       event_count |-> Len(lt[l].downtimes),
       last_scan |-> LastScanTime(lt[l])] :
        l \in { k \in DOMAIN lt : OverThreshold(lt[k].total_downtime, threshold) } }

\* the orders in which a dict with the keys S can be iterated
OrdersOf(S) ==
    { q \in [1..Cardinality(S) -> S] :
        \A i \in DOMAIN q : \A j \in DOMAIN q : i /= j => q[i] /= q[j] }

\* the downtimes of the locations order[i..], as the nested for loops of
\* get_recent_downtimes meet them
RECURSIVE AllDowntimes(_, _, _)
AllDowntimes(lt, order, i) ==
    IF i > Len(order) THEN <<>>
    ELSE lt[order[i]].downtimes \o AllDowntimes(lt, order, i + 1)

\* mutant of InsertByDetectedAt: oldest first
RECURSIVE InsertByDetectedAt_Ascending(_, _)
InsertByDetectedAt_Ascending(sorted, x) ==
    IF sorted = <<>> THEN <<x>>
    ELSE IF sorted[Len(sorted)].detected_at <= x.detected_at
         THEN Append(sorted, x)
         ELSE Append(InsertByDetectedAt_Ascending(SubSeq(sorted, 1, Len(sorted) - 1), x),
                     sorted[Len(sorted)])

\* sorted(..., key=lambda x: x['detected_at'], reverse=True): stable, equal
\* keys keep their order
RECURSIVE InsertByDetectedAt(_, _)
InsertByDetectedAt(sorted, x) ==
    IF sorted = <<>> THEN <<x>>
    ELSE IF sorted[Len(sorted)].detected_at >= x.detected_at
         THEN Append(sorted, x)
         ELSE Append(InsertByDetectedAt(SubSeq(sorted, 1, Len(sorted) - 1), x),
                     sorted[Len(sorted)])

RECURSIVE SortedByDetectedAt(_)
SortedByDetectedAt(q) ==
    IF q = <<>> THEN <<>>
    ELSE InsertByDetectedAt(SortedByDetectedAt(SubSeq(q, 1, Len(q) - 1)), q[Len(q)])

\* get_recent_downtimes(minutes) at the instant clock, the dict iterated in
\* the given order
GetRecentDowntimes(lt, order, clock, minutes) ==
    LET cutoff == clock - minutes
        Recent(downtime) == downtime.detected_at >= cutoff
    IN  SortedByDetectedAt(SelectSeq(AllDowntimes(lt, order, 1), Recent))

RECURSIVE SumTotalDowntime(_, _)
SumTotalDowntime(lt, S) ==
    IF S = {} THEN 0
    ELSE LET l == CHOOSE x \in S : TRUE
         IN  lt[l].total_downtime + SumTotalDowntime(lt, S \ {l})

RECURSIVE SumCountOf(_, _, _)
SumCountOf(lt, S, c) ==
    IF S = {} THEN 0
    ELSE LET l == CHOOSE x \in S : TRUE
         IN  CountOf(lt[l].category_counts, c) + SumCountOf(lt, S \ {l}, c)

\* get_statistics()
GetStatistics(lt) ==
    LET total_events == EpisodeCount(lt, DOMAIN lt)
        total_downtime == SumTotalDowntime(lt, DOMAIN lt)
    IN  [total_events |-> total_events,
         total_downtime_seconds |-> IntSeconds(total_downtime),
         average_downtime |-> AverageSeconds(total_downtime, total_events),
         category_distribution |->
             [c \in UNION { DOMAIN lt[l].category_counts : l \in DOMAIN lt } |->
                 SumCountOf(lt, DOMAIN lt, c)],
         active_locations |-> Cardinality({ l \in DOMAIN lt : lt[l].last_scan /= NoScan }),
         location_summaries |-> GetLocationSummaries(lt)]

\* the value returned by the latest call when it was a read operation:
\* which operation, its argument, what it returned
QueryResult(op, arg, value) == [op |-> op, arg |-> arg, value |-> value]

NoResult == QueryResult("", 0, <<>>)

----
(* Configurations and inputs of the specifications *)

\* a category list whose first two ranges share the boundary 20 and that has
\* no range for durations between 60s and 120s
SharedBoundaryAndGap ==
    << [name |-> "10-20",   min |-> 10,  max |-> 20],
       [name |-> "20-60",   min |-> 20,  max |-> 60],
       [name |-> "120-780", min |-> 120, max |-> 780] >>

\* the category lists config['downtime']['categories'] is drawn from
CategoryConfigs == { categories, <<>>, SharedBoundaryAndGap }

\* the scans a polling cycle hands to process_scans while the read
\* operations are exercised: two scans 20s apart at GA1, two 60.5s apart at GA2
CycleEvents ==
    { Scan("GA1", "T001", "INDUCTED", T0),
      Scan("GA1", "T004", "INDUCT", T20),
      Scan("GA2", "T006", "INDUCT", T0),
      Scan("GA2", "T007", "STOW_BUFFER", T60h) }

CycleBatches == SeqsUpTo(CycleEvents, MaxBatch)

\* durations (ticks) handed to _categorize_downtime: below, on and above the
\* boundaries of the category lists, and 60.5s
Durations ==
    { d * TicksPerSecond : d \in {5, 10, 19, 20, 21, 60, 61, 90, 120, 121, 780, 781} }
        \cup { T60h }

\* thresholds (seconds) handed to check_shift_end_alerts
Thresholds == {20, 60}

\* windows (minutes) handed to get_recent_downtimes
Windows == 0..MaxClock

----
(* MercuryScraper.scrape_with_retry *)

\* what one call of scrape_data gives: a list of records, an empty list,
\* None, or an exception
ScrapeOutcomes == {"records", "empty", "None", "raise"}

\* "if data is not None"
IsData(outcome) == outcome = "records" \/ outcome = "empty"

\* the delay argument (seconds)
Delays == {1, 5}

\* mutant of NextDelay: no backoff
NextDelay_Constant(delay) == delay

\* "delay *= 2"
NextDelay(delay) == delay * 2

\* the frame of a call scrape_with_retry(max_retries, delay) at its start;
\* tried and slept log the outcomes of scrape_data and the time.sleep calls
RetryFrame(max_retries, delay) ==
    [pc |-> "for", attempt |-> 0, max_retries |-> max_retries, delay |-> delay,
     first_delay |-> delay, tried |-> <<>>, slept |-> <<>>, result |-> "None"]

\* no call of scrape_with_retry is running
NoRetry == [RetryFrame(0, 0) EXCEPT !.pc = "idle"]

----
(* InductDowntimeMonitor *)

\* self.max_errors
max_errors == 5

\* config['slack']['shift_end_threshold'] (seconds): 2100 in the fallback
\* configuration, here a value that the episodes of the bounded trackers exceed
shift_end_threshold == 30

\* get_recent_downtimes(minutes=30) in send_30_minute_report
ReportMinutes == 30

\* "if event['downtime_seconds'] >= 120"
SignificantSeconds == 120

\* what scrape_with_retry returns: None or a list of records
ScanData(is_none, records) == [is_none |-> is_none, records |-> records]

\* the results of a scrape: None, no record, one scan at GA2, the scan 60.5s
\* after it, two scans 20s apart at GA1
ScrapeResults ==
    { ScanData(TRUE, <<>>),
      ScanData(FALSE, <<>>),
      ScanData(FALSE, << Scan("GA2", "T006", "INDUCT", T0) >>),
      ScanData(FALSE, << Scan("GA2", "T007", "STOW_BUFFER", T60h) >>),
      ScanData(FALSE, << Scan("GA1", "T001", "INDUCTED", T0),
                         Scan("GA1", "T004", "INDUCT", T20) >>) }

\* mutant of NotScanData: only None counts as a failed scrape
NotScanData_OnlyNone(scan_data) == scan_data.is_none

\* "if not scan_data": None or an empty list
NotScanData(scan_data) == scan_data.is_none \/ scan_data.records = <<>>

\* the record of a job: its name, whether it ran past its shift check, and
\* for scrape_and_analyze the scrape result, whether the raw scans were
\* stored, whether process_scans was called and whether it raised, whether
\* the escalation alert was sent, the events handed to send_downtime_alert
\* and the alerts handed to send_shift_end_alert; for send_30_minute_report
\* the summaries handed to the notifier; for send_shift_summary what the
\* notifier returned and whether reset_shift_data was called
JobRecord(name) ==
    [name |-> name, ran |-> FALSE, scan_data |-> ScanData(TRUE, <<>>),
     stored |-> FALSE, analyzed |-> FALSE, raised |-> FALSE, system_alert |-> FALSE,
     downtime_alerts |-> <<>>, checked |-> FALSE, shift_alerts |-> {},
     report |-> EmptyDict, success |-> FALSE, reset |-> FALSE]

NoJob == JobRecord("")

\* the events of new_downtimes handed to send_downtime_alert
SignificantDowntimes(events) ==
    LET Significant(event) == event.downtime_seconds >= SignificantSeconds
    IN  SelectSeq(events, Significant)

\* mutant of ShiftAlertsToSend: nothing is handed to the notifier
ShiftAlertsToSend_None(lt) == {}

\* the alerts scrape_and_analyze hands to send_shift_end_alert
ShiftAlertsToSend(lt) == CheckShiftEndAlerts(lt, shift_end_threshold)

\* scrape_and_analyze(): the trackers, system_errors and the job record it
\* leaves and the list process_scans returned to it; active is what
\* is_shift_active() gives, scan_data what scrape_with_retry() gives
ScrapeAndAnalyze(lt, errors, active, scan_data, clock) ==
    LET begun == [JobRecord("scrape_and_analyze") EXCEPT !.scan_data = scan_data]
    IN  IF ~active
        THEN [lt |-> lt, system_errors |-> errors, job |-> begun, new_downtimes |-> <<>>]
        ELSE IF NotScanData(scan_data)
        THEN [lt |-> lt, system_errors |-> errors + 1,
              job |-> [begun EXCEPT !.ran = TRUE,
                                    !.system_alert = (errors + 1 >= max_errors)],
              new_downtimes |-> <<>>]
        ELSE LET r == ProcessScansResult(lt, scan_data.records, clock)
                 analyzed == [begun EXCEPT !.ran = TRUE, !.stored = TRUE, !.analyzed = TRUE]
             IN  IF r.raised
                 \* "except Exception": system_errors, reset to 0 above, += 1
                 THEN [lt |-> r.lt, system_errors |-> 1,
                       job |-> [analyzed EXCEPT !.raised = TRUE],
                       new_downtimes |-> r.new_downtimes]
                 ELSE [lt |-> r.lt, system_errors |-> 0,
                       job |-> [analyzed EXCEPT
                                  !.downtime_alerts = SignificantDowntimes(r.new_downtimes),
                                  !.checked = TRUE,
                                  !.shift_alerts = ShiftAlertsToSend(r.lt)],
                       new_downtimes |-> r.new_downtimes]

\* the filter of send_30_minute_report: "if location_recent or
\* summary['event_count'] > 0"
RecentSummaries(summaries, recent_downtimes) ==
    [l \in { k \in DOMAIN summaries :
                \/ \E i \in DOMAIN recent_downtimes : recent_downtimes[i].location = k
                \/ summaries[k].event_count > 0 } |-> summaries[l]]

----
(* Specification *)

Init ==
    /\ location_trackers = EmptyDict
    /\ new_downtimes = <<>>
    /\ raised = FALSE
    /\ now = 0
    /\ self_categories = categories
    /\ query_result = NoResult
    /\ retry = NoRetry
    /\ system_errors = 0
    /\ consecutive_failed_scrapes = 0
    /\ job = NoJob

\* process_scans(scans) for a batch of B
ProcessScansFrom(B) ==
    \E scans \in B :
        \* r is what the call does: the trackers it leaves and what it returns
        \E r \in { ProcessScansResult(location_trackers, scans, now) } :
            /\ WithinBounds(r.lt)
            /\ location_trackers' = r.lt
            /\ new_downtimes' = r.new_downtimes
            /\ raised' = r.raised
            /\ query_result' = NoResult
            /\ UNCHANGED <<now, self_categories>>
            /\ UNCHANGED outside_analyzer

process_scans == ProcessScansFrom(Batches)

reset_shift_data ==
    /\ location_trackers' = ResetShiftData(location_trackers)
    /\ new_downtimes' = <<>>
    /\ raised' = FALSE
    /\ query_result' = NoResult
    /\ UNCHANGED <<now, self_categories>>
    /\ UNCHANGED outside_analyzer

Tick ==
    /\ now < MaxClock
    /\ now' = now + 1
    /\ UNCHANGED <<location_trackers, new_downtimes, raised, self_categories, query_result>>
    /\ UNCHANGED outside_analyzer

Next == process_scans \/ reset_shift_data

Spec == Init /\ [][Next]_vars

\* the analyzer constructed with any of the category lists
InitConfig ==
    /\ location_trackers = EmptyDict
    /\ new_downtimes = <<>>
    /\ raised = FALSE
    /\ now = 0
    /\ self_categories \in CategoryConfigs
    /\ query_result = NoResult
    /\ retry = NoRetry
    /\ system_errors = 0
    /\ consecutive_failed_scrapes = 0
    /\ job = NoJob

SpecConfig == InitConfig /\ [][Next]_vars

\* process_scans on the scans of a polling cycle
process_cycle_scans == ProcessScansFrom(CycleBatches)

check_shift_end_alerts ==
    \E threshold \in Thresholds :
        /\ query_result' = QueryResult("check_shift_end_alerts", threshold,
                                       CheckShiftEndAlerts(location_trackers, threshold))
        /\ UNCHANGED <<location_trackers, new_downtimes, raised, now, self_categories>>
        /\ UNCHANGED outside_analyzer

get_recent_downtimes ==
    \E minutes \in Windows : \E order \in OrdersOf(DOMAIN location_trackers) :
        /\ query_result' = QueryResult("get_recent_downtimes", minutes,
                                       GetRecentDowntimes(location_trackers, order, now, minutes))
        /\ UNCHANGED <<location_trackers, new_downtimes, raised, now, self_categories>>
        /\ UNCHANGED outside_analyzer

get_location_summaries ==
    /\ query_result' = QueryResult("_get_location_summaries", 0,
                                   GetLocationSummaries(location_trackers))
    /\ UNCHANGED <<location_trackers, new_downtimes, raised, now, self_categories>>
    /\ UNCHANGED outside_analyzer

get_statistics ==
    /\ query_result' = QueryResult("get_statistics", 0, GetStatistics(location_trackers))
    /\ UNCHANGED <<location_trackers, new_downtimes, raised, now, self_categories>>
    /\ UNCHANGED outside_analyzer

\* the analyzer with the wall clock advancing between the calls and its read
\* operations
NextClock ==
    \/ process_cycle_scans
    \/ reset_shift_data
    \/ Tick
    \/ check_shift_end_alerts
    \/ get_recent_downtimes
    \/ get_location_summaries
    \/ get_statistics

SpecClock == Init /\ [][NextClock]_vars

\* a call of scrape_with_retry
InitRetry ==
    /\ location_trackers = EmptyDict
    /\ new_downtimes = <<>>
    /\ raised = FALSE
    /\ now = 0
    /\ self_categories = categories
    /\ query_result = NoResult
    /\ retry \in { RetryFrame(max_retries, delay) : max_retries \in 0..MaxRetries, delay \in Delays }
    /\ system_errors = 0
    /\ consecutive_failed_scrapes = 0
    /\ job = NoJob

analyzer_vars == <<location_trackers, new_downtimes, raised, now, self_categories, query_result>>

\* one iteration of "for attempt in range(max_retries)" up to the sleep:
\* scrape_data is called; its data, if any, is returned
scrape_attempt ==
    /\ retry.pc = "for"
    /\ retry.attempt < retry.max_retries
    /\ \E outcome \in ScrapeOutcomes :
          retry' = IF IsData(outcome)
                   THEN [retry EXCEPT !.tried = Append(@, outcome), !.result = outcome,
                                      !.pc = "returned"]
                   ELSE IF retry.attempt < retry.max_retries - 1
                   THEN [retry EXCEPT !.tried = Append(@, outcome), !.pc = "sleep"]
                   ELSE [retry EXCEPT !.tried = Append(@, outcome), !.attempt = @ + 1]
    /\ UNCHANGED <<analyzer_vars, driver_vars>>

\* time.sleep(delay); delay *= 2
sleep_and_back_off ==
    /\ retry.pc = "sleep"
    /\ retry' = [retry EXCEPT !.slept = Append(@, retry.delay), !.delay = NextDelay(@),
                              !.attempt = @ + 1, !.pc = "for"]
    /\ UNCHANGED <<analyzer_vars, driver_vars>>

\* the loop is over: "All scrape attempts failed", return None
all_attempts_failed ==
    /\ retry.pc = "for"
    /\ retry.attempt >= retry.max_retries
    /\ retry' = [retry EXCEPT !.result = "None", !.pc = "returned"]
    /\ UNCHANGED <<analyzer_vars, driver_vars>>

NextRetry == scrape_attempt \/ sleep_and_back_off \/ all_attempts_failed

\* the call runs on: nothing in it waits for anything but scrape_data and
\* time.sleep, which return
SpecRetry == InitRetry /\ [][NextRetry]_vars /\ WF_vars(NextRetry)

\* the monitor constructed with the fallback category list or an empty one
InitDriver ==
    /\ location_trackers = EmptyDict
    /\ new_downtimes = <<>>
    /\ raised = FALSE
    /\ now = 0
    /\ self_categories \in { categories, <<>> }
    /\ query_result = NoResult
    /\ retry = NoRetry
    /\ system_errors = 0
    /\ consecutive_failed_scrapes = 0
    /\ job = NoJob

\* the scheduled job scrape_and_analyze
scrape_and_analyze ==
    \E active \in BOOLEAN : \E scan_data \in ScrapeResults :
        \E r \in { ScrapeAndAnalyze(location_trackers, system_errors, active, scan_data, now) } :
            /\ WithinBounds(r.lt)
            /\ r.system_errors <= MaxErrors
            /\ location_trackers' = r.lt
            /\ system_errors' = r.system_errors
            /\ job' = r.job
            /\ consecutive_failed_scrapes' =
                   IF ~active THEN consecutive_failed_scrapes
                   ELSE IF NotScanData(scan_data) THEN consecutive_failed_scrapes + 1
                   ELSE 0
            /\ consecutive_failed_scrapes' <= MaxErrors
            \* what the call of process_scans gave, if it was made
            /\ new_downtimes' = IF r.job.analyzed THEN r.new_downtimes ELSE new_downtimes
            /\ raised' = IF r.job.analyzed THEN r.job.raised ELSE raised
            /\ UNCHANGED <<now, self_categories, query_result, retry>>

\* the scheduled job send_30_minute_report; reporting is whether the shift is
\* active and it is not break time
send_30_minute_report ==
    \E reporting \in BOOLEAN : \E order \in OrdersOf(DOMAIN location_trackers) :
        /\ job' = IF ~reporting THEN JobRecord("send_30_minute_report")
                  ELSE [JobRecord("send_30_minute_report") EXCEPT
                          !.ran = TRUE,
                          !.report = RecentSummaries(
                              GetLocationSummaries(location_trackers),
                              GetRecentDowntimes(location_trackers, order, now, ReportMinutes))]
        /\ UNCHANGED <<analyzer_vars, retry, system_errors, consecutive_failed_scrapes>>

\* the scheduled job send_shift_summary; success is what
\* notifier.send_shift_summary returns
send_shift_summary ==
    \E success \in BOOLEAN :
        /\ job' = [JobRecord("send_shift_summary") EXCEPT
                     !.ran = TRUE,
                     !.report = GetLocationSummaries(location_trackers),
                     !.success = success,
                     !.reset = success]
        /\ location_trackers' =
               IF success THEN ResetShiftData(location_trackers) ELSE location_trackers
        /\ new_downtimes' = IF success THEN <<>> ELSE new_downtimes
        /\ raised' = IF success THEN FALSE ELSE raised
        /\ UNCHANGED <<now, self_categories, query_result, retry,
                       system_errors, consecutive_failed_scrapes>>

\* more than the window of the 30-minute report goes by
report_window_passes ==
    /\ now < MaxClock * (ReportMinutes + 1)
    /\ now' = now + ReportMinutes + 1
    /\ UNCHANGED <<location_trackers, new_downtimes, raised, self_categories, query_result,
                   outside_analyzer>>

NextDriver ==
    \/ scrape_and_analyze
    \/ send_30_minute_report
    \/ send_shift_summary
    \/ report_window_passes

SpecDriver == InitDriver /\ [][NextDriver]_vars

----
(* Claims *)

HasLastScan(lt, l) == l \in DOMAIN lt /\ lt[l].last_scan /= NoScan

\* the gap, in ticks, between a scan and the last scan of its location
GapTo(lt, s) == s.timestamp - lt[s.location].last_scan.timestamp

RECURSIVE SumDowntimeSeconds(_)
SumDowntimeSeconds(events) ==
    IF events = <<>> THEN 0
    ELSE events[1].downtime_seconds + SumDowntimeSeconds(Tail(events))

\* C1: a scan handled by _process_single_scan emits a downtime episode if and
\* only if its location already has a last_scan and the gap to it satisfies
\* 20 <= gap <= break_threshold (both boundaries tracked; 19s and
\* break_threshold + 1s emit nothing).
C1_EmitIffTrackedGap ==
    \A s \in ScanEvents :
        \A r \in { ProcessSingleScan(location_trackers, s, now) } :
            (r.event /= <<>>) <=>
                /\ HasLastScan(location_trackers, s.location)
                /\ minimum_tracked_seconds * TicksPerSecond <= GapTo(location_trackers, s)
                /\ GapTo(location_trackers, s) <= break_threshold * TicksPerSecond

\* a call has just emitted an episode for a gap of exactly break_threshold and
\* the trackers hold one for a gap of exactly 20s
C1_Witness ==
    /\ \E i \in DOMAIN new_downtimes :
          new_downtimes[i].end_timestamp - new_downtimes[i].start_timestamp
              = break_threshold * TicksPerSecond
    /\ \E l \in DOMAIN location_trackers : \E i \in DOMAIN location_trackers[l].downtimes :
          LET e == location_trackers[l].downtimes[i]
          IN  e.end_timestamp - e.start_timestamp = minimum_tracked_seconds * TicksPerSecond

\* C2: for every location, total_downtime equals the sum of the
\* downtime_seconds fields of the episodes in its list, also for gaps that
\* are not whole seconds (total_downtime is in ticks here).
C2_TotalEqualsSumOfDurations ==
    \A l \in DOMAIN location_trackers :
        location_trackers[l].total_downtime
            = TicksPerSecond * SumDowntimeSeconds(location_trackers[l].downtimes)

\* every label _categorize_downtime can return for the configured categories
CategoryLabels ==
    { categories[i].name : i \in DOMAIN categories }
        \cup { "<" \o ToString(categories[1].min),
               ">" \o ToString(categories[Len(categories)].max) }

EpisodesIn(tracker, c) == { i \in DOMAIN tracker.downtimes : tracker.downtimes[i].category = c }

RECURSIVE SumCounts(_, _)
SumCounts(counts, S) ==
    IF S = {} THEN 0
    ELSE LET c == CHOOSE x \in S : TRUE
         IN  counts[c] + SumCounts(counts, S \ {c})

\* C3: for every location and every category name c, category_counts[c] is
\* the number of episodes of the location's list whose category is c, and
\* the counts sum to the number of episodes.
C3_CategoryCountsMatchEpisodes ==
    \A l \in DOMAIN location_trackers :
        LET tracker == location_trackers[l]
        IN  /\ DOMAIN tracker.category_counts \subseteq CategoryLabels
            /\ \A c \in CategoryLabels :
                    CountOf(tracker.category_counts, c) = Cardinality(EpisodesIn(tracker, c))
            /\ SumCounts(tracker.category_counts, DOMAIN tracker.category_counts)
                    = Len(tracker.downtimes)

\* a tracker holds two episodes of one category, counted twice
C3_Witness ==
    \E l \in DOMAIN location_trackers :
        LET tracker == location_trackers[l]
        IN  /\ Len(tracker.downtimes) = 2
            /\ tracker.downtimes[1].category = tracker.downtimes[2].category
            /\ CountOf(tracker.category_counts, tracker.downtimes[1].category) = 2

\* the event (location, tracking_id, timestamp) is known to the trackers: it is
\* the last_scan of its location or an endpoint of one of its episodes
AlreadyIngested(lt, l, id, ts) ==
    /\ l \in DOMAIN lt
    /\ \/ /\ lt[l].last_scan.tracking_id = id
          /\ lt[l].last_scan.timestamp = ts
       \/ \E i \in DOMAIN lt[l].downtimes :
             \/ /\ lt[l].downtimes[i].end_tracking_id = id
                /\ lt[l].downtimes[i].end_timestamp = ts
             \/ /\ lt[l].downtimes[i].start_tracking_id = id
                /\ lt[l].downtimes[i].start_timestamp = ts

\* C4: re-delivering events that an earlier process_scans call already
\* ingested never produces an additional downtime episode: no episode
\* returned by a call ends at an event the trackers already held before
\* the call.
C4_NoEpisodeFromRedelivery ==
    [][\A i \in DOMAIN new_downtimes' :
          ~AlreadyIngested(location_trackers, new_downtimes'[i].location,
                           new_downtimes'[i].end_tracking_id,
                           new_downtimes'[i].end_timestamp)]_vars

\* C5: a scan whose timestamp is not later than its location's last_scan is
\* ignored, so the timestamp of a location's last_scan never moves backwards
\* between resets.
C5_LastScanNeverMovesBack ==
    [][\A l \in DOMAIN location_trackers :
          (location_trackers[l].last_scan /= NoScan /\ location_trackers'[l].last_scan /= NoScan)
              => location_trackers'[l].last_scan.timestamp
                     >= location_trackers[l].last_scan.timestamp]_vars

\* C6: after _process_single_scan has handled a scan whose timestamp is later
\* than the last_scan of its location (or that is the first one), the
\* location's last_scan holds exactly the scan's timestamp, tracking_id and
\* status, whether or not an episode was emitted.
C6_LastScanIsProcessedScan ==
    \A s \in ScanEvents :
        (HasLastScan(location_trackers, s.location) => GapTo(location_trackers, s) > 0)
            => \A r \in { ProcessSingleScan(location_trackers, s, now) } :
                   /\ ~r.raised
                   /\ r.lt[s.location].last_scan.timestamp = s.timestamp
                   /\ r.lt[s.location].last_scan.tracking_id = s.tracking_id
                   /\ r.lt[s.location].last_scan.status = s.status

\* a call has just emitted an episode and the last_scan of its location is the
\* scan that ended it
C6_Witness ==
    /\ new_downtimes /= <<>>
    /\ LET e == new_downtimes[Len(new_downtimes)]
       IN  location_trackers[e.location].last_scan =
               [timestamp |-> e.end_timestamp, tracking_id |-> e.end_tracking_id,
                status |-> e.end_status]

\* batches of well-formed events
WellFormedBatches == SeqsUpTo(ScanEvents, MaxBatch)

\* the state right after a call that returned no episode.  process_scans([])
\* leads from every reachable state to the state with the same trackers and
\* an empty result, so every reachable tracker map occurs in such a state;
\* the properties below that only read location_trackers are evaluated there.
Quiescent == new_downtimes = <<>> /\ raised = FALSE

\* process_scans(b) called on the tracker map lt at the current instant
Run(lt, b) == ProcessScansResult(lt, b, now)

\* the events of location l in a sequence of events or episodes, in order
AtLocation(q, l) ==
    LET Here(x) == x.location = l
    IN  SelectSeq(q, Here)

StrictlyIncreasing(q) == \A i \in 1..(Len(q) - 1) : q[i].timestamp < q[i + 1].timestamp

\* no scan processed for the location since construction or the last reset
Fresh(lt, l) == l \notin DOMAIN lt \/ lt[l] = NewTracker

\* the batches made of scans of one location with strictly increasing timestamps
IncreasingAt ==
    [l \in Locations |->
        { b \in WellFormedBatches :
            (\A i \in DOMAIN b : b[i].location = l) /\ StrictlyIncreasing(b) }]

\* sum, in ticks, of the gaps between consecutive scans of q that lie strictly
\* between minimum_tracked_seconds and break_threshold
RECURSIVE SumGapsStrictlyBetween(_)
SumGapsStrictlyBetween(q) ==
    IF Len(q) < 2 THEN 0
    ELSE LET gap == q[2].timestamp - q[1].timestamp
         IN  (IF minimum_tracked_seconds * TicksPerSecond < gap
                    /\ gap < break_threshold * TicksPerSecond
              THEN gap ELSE 0) + SumGapsStrictlyBetween(Tail(q))

\* sum, in seconds, of the gaps g between consecutive scans of q with
\* minimum_tracked_seconds <= g <= break_threshold, each cut to whole seconds
RECURSIVE SumTrackedGapsWholeSeconds(_)
SumTrackedGapsWholeSeconds(q) ==
    IF Len(q) < 2 THEN 0
    ELSE LET gap == q[2].timestamp - q[1].timestamp
         IN  (IF minimum_tracked_seconds * TicksPerSecond <= gap
                    /\ gap <= break_threshold * TicksPerSecond
              THEN gap \div TicksPerSecond ELSE 0) + SumTrackedGapsWholeSeconds(Tail(q))

\* C7 as stated: for scans of one location with strictly increasing
\* timestamps, ingested in one or two calls, the durations of the emitted
\* episodes sum to the sum of the gaps strictly between 20s and
\* break_threshold.
C7_SumOfGapsStrictlyBetween ==
    \A l \in Locations :
        Fresh(location_trackers, l) =>
            \A b1 \in IncreasingAt[l] : \A b2 \in IncreasingAt[l] :
                StrictlyIncreasing(b1 \o b2) =>
                    \A r1 \in { Run(location_trackers, b1) } : \A r2 \in { Run(r1.lt, b2) } :
                        TicksPerSecond * SumDowntimeSeconds(r1.new_downtimes \o r2.new_downtimes)
                            = SumGapsStrictlyBetween(b1 \o b2)

\* C7 amended: the durations of the emitted episodes sum to the sum of the
\* gaps g with 20s <= g <= break_threshold (boundaries included), each cut to
\* whole seconds.
C7_SumOfTrackedGaps ==
    \A l \in Locations :
        (Quiescent /\ Fresh(location_trackers, l)) =>
            \A b1 \in IncreasingAt[l] : \A b2 \in IncreasingAt[l] :
                StrictlyIncreasing(b1 \o b2) =>
                    \A r1 \in { Run(location_trackers, b1) } : \A r2 \in { Run(r1.lt, b2) } :
                        SumDowntimeSeconds(r1.new_downtimes \o r2.new_downtimes)
                            = SumTrackedGapsWholeSeconds(b1 \o b2)

\* a tracker holds the episodes of scans at 0s, 20s and 800s, ingested in
\* increasing order: 20s and 780s, both on a boundary
C7_Witness ==
    \E l \in DOMAIN location_trackers :
        LET d == location_trackers[l].downtimes
        IN  /\ Len(d) = 2
            /\ d[1].end_timestamp = d[2].start_timestamp
            /\ d[1].downtime_seconds = minimum_tracked_seconds
            /\ d[2].downtime_seconds = break_threshold
            /\ location_trackers[l].last_scan.timestamp = d[2].end_timestamp

Bijections(n) == { p \in [1..n -> 1..n] : \A i \in 1..n : \A j \in 1..n : i /= j => p[i] /= p[j] }

Rearranged(q, p) == [i \in 1..Len(q) |-> q[p[i]]]

\* the rearrangements of the sequence q
PermutationsOf(q) == { Rearranged(q, p) : p \in Bijections(Len(q)) }

\* q by ascending timestamp, events of equal timestamp in their order in q
InTimestampOrder(q) ==
    { Rearranged(q, p) :
        p \in { p \in Bijections(Len(q)) :
                  \A i \in 1..Len(q) : \A j \in 1..Len(q) :
                      i < j => \/ q[p[i]].timestamp < q[p[j]].timestamp
                               \/ /\ q[p[i]].timestamp = q[p[j]].timestamp
                                  /\ p[i] < p[j] } }

\* the trackers of location l are the same in the maps lt1 and lt2
SameTracker(lt1, lt2, l) ==
    /\ (l \in DOMAIN lt1) <=> (l \in DOMAIN lt2)
    /\ l \in DOMAIN lt1 => lt1[l] = lt2[l]

C9_AnyOrderSameResult ==
    \A b \in WellFormedBatches : \A r1 \in { Run(location_trackers, b) } :
        \A p \in PermutationsOf(b) : \A r2 \in { Run(location_trackers, p) } :
            r1.lt = r2.lt /\ r1.new_downtimes = r2.new_downtimes

NoTieWithinLocation(b) ==
    \A i \in DOMAIN b : \A j \in DOMAIN b :
        (i /= j /\ b[i].location = b[j].location) => b[i].timestamp /= b[j].timestamp

\* C9 amended: for a batch in which no two events of one location carry the
\* same timestamp, any two orders give the same final trackers and, for
\* every location, the same emitted episodes in the same order.
C9_AnyOrderSameResultWithoutTies ==
    Quiescent =>
        \A b \in WellFormedBatches :
            NoTieWithinLocation(b) =>
                \A r1 \in { Run(location_trackers, b) } :
                    \A p \in PermutationsOf(b) : \A r2 \in { Run(location_trackers, p) } :
                        /\ r1.lt = r2.lt
                        /\ \A l \in Locations :
                              AtLocation(r1.new_downtimes, l) = AtLocation(r2.new_downtimes, l)

\* one call has just emitted two consecutive episodes of one location: its
\* batch held two scans of the location, processed by ascending timestamp
C9_Witness ==
    /\ Len(new_downtimes) = 2
    /\ new_downtimes[1].location = new_downtimes[2].location
    /\ new_downtimes[1].end_tracking_id = new_downtimes[2].start_tracking_id
    /\ new_downtimes[1].end_timestamp = new_downtimes[2].start_timestamp

\* C10: an event with a missing field makes process_scans skip that event
\* only: the call does not raise.
C10_NeverRaises == raised = FALSE

\* C11 as stated: with an empty category list, process_scans on any batch of
\* well-formed events, also one with a gap inside 20s..break_threshold,
\* returns without raising and returns no episodes.
C11_EmptyCategoriesNeverRaise ==
    self_categories = <<>> =>
        \A b \in WellFormedBatches : \A r \in { Run(location_trackers, b) } :
            ~r.raised /\ r.new_downtimes = <<>>

\* C12: process_scans([]) returns an empty new_downtimes list and leaves
\* every tracker and the set of known locations unchanged, from any
\* reachable state.
C12_EmptyBatchChangesNothing ==
    \A r \in { Run(location_trackers, <<>>) } :
        /\ ~r.raised
        /\ r.new_downtimes = <<>>
        /\ DOMAIN r.lt = DOMAIN location_trackers
        /\ r.lt = location_trackers

\* a call has just returned no episode and a tracker still holds its
\* episodes, total, counts and last scan
C12_Witness ==
    /\ new_downtimes = <<>>
    /\ raised = FALSE
    /\ \E l \in DOMAIN location_trackers :
          /\ Len(location_trackers[l].downtimes) > 0
          /\ location_trackers[l].total_downtime > 0
          /\ location_trackers[l].category_counts /= EmptyDict
          /\ location_trackers[l].last_scan /= NoScan

\* what the read operations report of trackers that hold nothing
ReportsNothing(lt, clock) ==
    /\ \A l \in DOMAIN lt :
          GetLocationSummaries(lt)[l] =
              [total_downtime |-> 0, event_count |-> 0, category_counts |-> EmptyDict,
               last_scan_time |-> NoScan.timestamp, average_downtime |-> 0]
    /\ \A threshold \in Thresholds \cup {0} : CheckShiftEndAlerts(lt, threshold) = {}
    /\ \A minutes \in Windows : \A order \in OrdersOf(DOMAIN lt) :
          GetRecentDowntimes(lt, order, clock, minutes) = <<>>
    /\ \A st \in { GetStatistics(lt) } :
          /\ st.total_events = 0
          /\ st.total_downtime_seconds = 0
          /\ st.average_downtime = 0
          /\ st.category_distribution = EmptyDict
          /\ st.active_locations = 0
          /\ DOMAIN st.location_summaries = DOMAIN lt

\* C13: no step removes a known location, and after reset_shift_data every
\* previously known location still has a tracker, with last_scan none, no
\* episodes, total_downtime 0 and empty category_counts, so that the location
\* summaries, check_shift_end_alerts (threshold >= 0), get_recent_downtimes
\* and get_statistics report zero/empty.
C13_ResetKeepsLocationsEmptiesTrackers ==
    [][/\ DOMAIN location_trackers \subseteq DOMAIN location_trackers'
       /\ reset_shift_data =>
             /\ DOMAIN location_trackers' = DOMAIN location_trackers
             /\ \A l \in DOMAIN location_trackers' : location_trackers'[l] = NewTracker
             /\ ReportsNothing(location_trackers', now')]_vars

\* both locations are known and their trackers hold nothing: the state after
\* a reset that followed scans at both
C13_Witness ==
    /\ DOMAIN location_trackers = Locations
    /\ \A l \in Locations : location_trackers[l] = NewTracker

\* C14: the first scan processed at a location after reset_shift_data emits
\* no episode, whatever the gap to the last scan seen before the reset, and
\* leaves the tracker a never seen location gets; the gap of the scan after
\* it is computed from that scan.
C14_FirstScanAfterResetEmitsNothing ==
    \A s \in ScanEvents :
        \A r \in { ProcessSingleScan(ResetShiftData(location_trackers), s, now) } :
            /\ ~r.raised
            /\ r.event = <<>>
            /\ r.lt[s.location] = ProcessSingleScan(EmptyDict, s, now).lt[s.location]
            /\ \A s2 \in ScanEvents :
                  s2.location = s.location =>
                      \A r2 \in { ProcessSingleScan(r.lt, s2, now) } :
                          r2.event /= <<>> =>
                              /\ r2.event[1].start_timestamp = s.timestamp
                              /\ r2.event[1].start_tracking_id = s.tracking_id

\* GA2 is known and holds nothing (the trackers were reset) and GA1 has a last
\* scan and no episode: a scan at GA1 was processed after the reset
C14_Witness ==
    /\ DOMAIN location_trackers = Locations
    /\ location_trackers["GA2"] = NewTracker
    /\ location_trackers["GA1"].last_scan /= NoScan
    /\ location_trackers["GA1"].downtimes = <<>>
    /\ location_trackers["GA1"].total_downtime = 0

\* the locations whose total_downtime (ticks) strictly exceeds the threshold
\* (seconds)
LocationsOver(lt, threshold) ==
    { l \in DOMAIN lt : lt[l].total_downtime > threshold * TicksPerSecond }

\* what a check_shift_end_alerts step must satisfy but for the reported total
AlertsForLocationsOver(lt, threshold, alerts) ==
    /\ { a.location : a \in alerts } = LocationsOver(lt, threshold)
    /\ Cardinality(alerts) = Cardinality(LocationsOver(lt, threshold))
    /\ \A a \in alerts :
          /\ a.threshold = threshold
          /\ a.event_count = Len(lt[a.location].downtimes)
          /\ a.last_scan = lt[a.location].last_scan.timestamp

\* C15 as stated: check_shift_end_alerts(threshold) returns one entry for
\* exactly the locations whose total_downtime strictly exceeds threshold,
\* each carrying the location's total, the threshold, its episode count and
\* its last scan timestamp, and changes no tracker.
C15_AlertsCarryTotal ==
    [][query_result'.op = "check_shift_end_alerts" =>
          /\ UNCHANGED location_trackers
          /\ AlertsForLocationsOver(location_trackers, query_result'.arg, query_result'.value)
          /\ \A a \in query_result'.value :
                a.total_downtime * TicksPerSecond
                    = location_trackers[a.location].total_downtime]_vars

\* C15 amended: the same, each entry carrying the location's total cut to
\* whole seconds (int(total_downtime)).
C15_AlertsCarryTotalInWholeSeconds ==
    [][query_result'.op = "check_shift_end_alerts" =>
          /\ UNCHANGED location_trackers
          /\ AlertsForLocationsOver(location_trackers, query_result'.arg, query_result'.value)
          /\ \A a \in query_result'.value :
                a.total_downtime
                    = location_trackers[a.location].total_downtime \div TicksPerSecond]_vars

\* check_shift_end_alerts has just reported one location and left out one
\* whose total equals the threshold
C15_Witness ==
    /\ query_result.op = "check_shift_end_alerts"
    /\ Cardinality(query_result.value) = 1
    /\ \E l \in DOMAIN location_trackers :
          /\ location_trackers[l].total_downtime = query_result.arg * TicksPerSecond
          /\ \A a \in query_result.value : a.location /= l

\* the episodes held by the trackers, as (location, index)
HeldEpisodes(lt) ==
    UNION { { <<l, i>> : i \in DOMAIN lt[l].downtimes } : l \in DOMAIN lt }

\* q lists every episode of the set held (of (location, index)) exactly once
ListsEachOnce(lt, q, held) ==
    /\ Len(q) = Cardinality(held)
    /\ \E f \in [DOMAIN q -> held] :
          /\ \A i \in DOMAIN q : \A j \in DOMAIN q : i /= j => f[i] /= f[j]
          /\ \A i \in DOMAIN q : q[i] = lt[f[i][1]].downtimes[f[i][2]]

\* C18: get_recent_downtimes(window) returns exactly the episodes, across all
\* locations, whose detected_at lies in [now - window, now], each once,
\* ordered by detected_at from most recent to oldest, and changes no tracker.
C18_RecentDowntimesInWindow ==
    [][(query_result'.op = "get_recent_downtimes" /\ now' = now) =>
          /\ UNCHANGED location_trackers
          /\ ListsEachOnce(location_trackers, query_result'.value,
                 { p \in HeldEpisodes(location_trackers) :
                     LET at == location_trackers[p[1]].downtimes[p[2]].detected_at
                     IN  now - query_result'.arg <= at /\ at <= now })
          /\ \A i \in DOMAIN query_result'.value : \A j \in DOMAIN query_result'.value :
                i < j => query_result'.value[i].detected_at
                             >= query_result'.value[j].detected_at]_vars

\* get_recent_downtimes has just returned an episode and left out an older one
C18_Witness ==
    /\ query_result.op = "get_recent_downtimes"
    /\ Len(query_result.value) = 1
    /\ query_result.value[1].detected_at >= now - query_result.arg
    /\ \E p \in HeldEpisodes(location_trackers) :
          location_trackers[p[1]].downtimes[p[2]].detected_at < now - query_result.arg

\* what a _get_location_summaries step must satisfy but for the total and the
\* average
SummariesOfTrackers(lt, summaries) ==
    /\ DOMAIN summaries = DOMAIN lt
    /\ \A l \in DOMAIN lt :
          /\ summaries[l].event_count = Len(lt[l].downtimes)
          /\ summaries[l].category_counts = lt[l].category_counts
          /\ summaries[l].last_scan_time = lt[l].last_scan.timestamp
          /\ Len(lt[l].downtimes) = 0 => summaries[l].average_downtime = 0

\* C19 as stated: for every known location the summary reports the tracker's
\* total, its number of episodes, its category_counts, its last scan
\* timestamp (none if no scan since reset) and average_downtime =
\* total / count (0 when the count is 0); computing it changes nothing.
C19_SummaryTotalAndAverage ==
    [][query_result'.op = "_get_location_summaries" =>
          /\ UNCHANGED location_trackers
          /\ SummariesOfTrackers(location_trackers, query_result'.value)
          /\ \A l \in DOMAIN location_trackers :
                /\ query_result'.value[l].total_downtime * TicksPerSecond
                       = location_trackers[l].total_downtime
                /\ query_result'.value[l].average_downtime
                           * Len(location_trackers[l].downtimes) * TicksPerSecond
                       = location_trackers[l].total_downtime]_vars

\* C19 amended: the same, with the total and the average cut to whole
\* seconds: total_downtime = int(total), average_downtime = int(total / count).
C19_SummaryTotalAndAverageInWholeSeconds ==
    [][query_result'.op = "_get_location_summaries" =>
          /\ UNCHANGED location_trackers
          /\ SummariesOfTrackers(location_trackers, query_result'.value)
          /\ \A l \in DOMAIN location_trackers :
                /\ query_result'.value[l].total_downtime
                       = location_trackers[l].total_downtime \div TicksPerSecond
                /\ Len(location_trackers[l].downtimes) > 0 =>
                       query_result'.value[l].average_downtime
                           = location_trackers[l].total_downtime
                                 \div (TicksPerSecond * Len(location_trackers[l].downtimes))]_vars

\* the summaries have just been computed for a location with one episode of
\* 60.5s and a location with a last scan and no episode
C19_Witness ==
    /\ query_result.op = "_get_location_summaries"
    /\ \E l \in DOMAIN query_result.value :
          /\ query_result.value[l].event_count = 1
          /\ location_trackers[l].total_downtime = T60h
          /\ query_result.value[l].average_downtime = 60
    /\ \E l \in DOMAIN query_result.value :
          /\ query_result.value[l].event_count = 0
          /\ query_result.value[l].last_scan_time /= NoScan.timestamp
          /\ query_result.value[l].average_downtime = 0

\* the categories of the list cats whose [min, max] contains the duration
Containing(cats, ticks) ==
    { i \in DOMAIN cats :
        cats[i].min * TicksPerSecond <= ticks /\ ticks <= cats[i].max * TicksPerSecond }

\* C16: _categorize_downtime returns the name of the first category, in list
\* order, whose [min, max] inclusively contains the duration; when ranges
\* overlap or share a boundary the earlier entry wins.
C16_FirstContainingCategoryWins ==
    \A ticks \in Durations :
        \A containing \in { Containing(self_categories, ticks) } :
            containing /= {} =>
                \E i \in containing :
                    /\ \A j \in containing : i <= j
                    /\ CategorizeDowntime(self_categories, ticks) = self_categories[i].name

\* a tracker holds an episode of exactly 20s, the boundary shared by the
\* first two categories, under the name of the first
C16_Witness ==
    /\ Cardinality(Containing(self_categories, minimum_tracked_seconds * TicksPerSecond)) = 2
    /\ \E l \in DOMAIN location_trackers : \E i \in DOMAIN location_trackers[l].downtimes :
          /\ location_trackers[l].downtimes[i].downtime_seconds = minimum_tracked_seconds
          /\ location_trackers[l].downtimes[i].category = self_categories[1].name
          /\ CountOf(location_trackers[l].category_counts, self_categories[1].name) > 0

\* C17 as stated: for a non-empty category list, contiguous or with gaps,
\* when no category contains the duration _categorize_downtime returns the
\* below-range label exactly when the duration is below the first category's
\* min and the above-range label exactly when it is above the last
\* category's max.
C17_SyntheticLabelsOnlyOutOfRange ==
    self_categories /= <<>> =>
        \A ticks \in Durations :
            Containing(self_categories, ticks) = {} =>
                \A label \in { CategorizeDowntime(self_categories, ticks) } :
                    /\ label = "<" \o ToString(self_categories[1].min)
                           <=> ticks < self_categories[1].min * TicksPerSecond
                    /\ label = ">" \o ToString(self_categories[Len(self_categories)].max)
                           <=> ticks > self_categories[Len(self_categories)].max * TicksPerSecond

\* the episodes a tracker map holds for a location, none if it is not known
DowntimesAt(lt, l) == IF l \in DOMAIN lt THEN lt[l].downtimes ELSE <<>>

\* C20: the list returned by process_scans contains exactly the episodes
\* appended to the trackers during that call, in the order processed: end
\* timestamps are non-decreasing over the whole list and, per location, the
\* episodes appear in the order they were appended.
C20_ReturnedListIsWhatWasAppended ==
    Quiescent =>
        \A b \in WellFormedBatches : \A r \in { Run(location_trackers, b) } :
            /\ ~r.raised
            /\ \A l \in Locations :
                  DowntimesAt(r.lt, l)
                      = DowntimesAt(location_trackers, l) \o AtLocation(r.new_downtimes, l)
            /\ \A i \in DOMAIN r.new_downtimes : \A j \in DOMAIN r.new_downtimes :
                  i < j => r.new_downtimes[i].end_timestamp <= r.new_downtimes[j].end_timestamp

\* a call has just returned one episode, appended to a tracker behind the
\* episode of an earlier call
C20_Witness ==
    /\ Len(new_downtimes) = 1
    /\ \E l \in DOMAIN location_trackers :
          LET d == location_trackers[l].downtimes
          IN  /\ Len(d) = 2
              /\ d[2] = new_downtimes[1]
              /\ d[1] /= new_downtimes[1]

\* what every emitted episode takes from the last scan and from the scan
EndpointsOfEpisode(e, last_scan, scan) ==
    /\ e.location = scan.location
    /\ e.start_timestamp = last_scan.timestamp
    /\ e.start_tracking_id = last_scan.tracking_id
    /\ e.start_status = last_scan.status
    /\ e.end_timestamp = scan.timestamp
    /\ e.end_tracking_id = scan.tracking_id
    /\ e.end_status = scan.status

C22_HeldEpisodesInTrackedRange ==
    \A l \in DOMAIN location_trackers : \A i \in DOMAIN location_trackers[l].downtimes :
        LET e == location_trackers[l].downtimes[i]
        IN  /\ minimum_tracked_seconds <= e.downtime_seconds
            /\ e.downtime_seconds <= break_threshold
            /\ e.start_timestamp < e.end_timestamp

\* a tracker holds an episode and its last scan is older than the end of the
\* episode: a scan arrived out of order in a later batch
C22_Witness ==
    \E l \in DOMAIN location_trackers :
        /\ Len(location_trackers[l].downtimes) > 0
        /\ location_trackers[l].last_scan.timestamp
               < location_trackers[l].downtimes[Len(location_trackers[l].downtimes)].end_timestamp

\* C23: processing a scan for location L changes only L's tracker, and what
\* a scan of another location emits does not depend on it.
C23_OnlyOwnTrackerChanges ==
    \A s \in Events : \A r \in { ProcessSingleScan(location_trackers, s, now) } :
        /\ \A l \in DOMAIN r.lt :
              l /= s.location => l \in DOMAIN location_trackers /\ r.lt[l] = location_trackers[l]
        /\ \A l \in DOMAIN location_trackers : l \in DOMAIN r.lt
        /\ \A s2 \in ScanEvents :
              s2.location /= s.location =>
                  ProcessSingleScan(r.lt, s2, now).event
                      = ProcessSingleScan(location_trackers, s2, now).event

\* a call has just emitted an episode for one location while the tracker of
\* the other holds its own episode and last scan
C23_Witness ==
    /\ Len(new_downtimes) = 1
    /\ \E l \in DOMAIN location_trackers :
          /\ l /= new_downtimes[1].location
          /\ Len(location_trackers[l].downtimes) = 1
          /\ location_trackers[l].last_scan.timestamp
                 = location_trackers[l].downtimes[1].end_timestamp

\* C28 as stated: if process_scans raises, the trackers are exactly what they
\* were before the call.
C28_RaiseLeavesTrackersUntouched ==
    [][raised' => location_trackers' = location_trackers]_vars

RECURSIVE PowerOfTwo(_)
PowerOfTwo(n) == IF n = 0 THEN 1 ELSE 2 * PowerOfTwo(n - 1)

\* what holds of a call of scrape_with_retry at every moment, and of its
\* result once it has returned
RetryWithinAttempts ==
    /\ Len(retry.tried) <= retry.max_retries
    /\ \A i \in DOMAIN retry.tried : i < Len(retry.tried) => ~IsData(retry.tried[i])
    /\ \A i \in DOMAIN retry.slept : retry.slept[i] = retry.first_delay * PowerOfTwo(i - 1)
    /\ retry.pc = "returned" =>
          /\ Len(retry.slept) = (IF retry.tried = <<>> THEN 0 ELSE Len(retry.tried) - 1)
          /\ retry.result /= "None" =>
                /\ retry.tried /= <<>>
                /\ retry.result = retry.tried[Len(retry.tried)]
                /\ IsData(retry.result)
          /\ retry.result = "None" <=>
                /\ Len(retry.tried) = retry.max_retries
                /\ \A i \in DOMAIN retry.tried : ~IsData(retry.tried[i])

\* C25: scrape_with_retry(max_retries, delay) always terminates after at
\* most max_retries scrape attempts: it returns the first non-None result
\* without further attempts, waits delay, 2*delay, 4*delay, ... between
\* consecutive attempts and never after the last one, and returns None if and
\* only if every attempt failed or raised.
C25_RetryTerminatesWithBackoff ==
    [](retry.pc /= "idle" => RetryWithinAttempts) /\ <>(retry.pc = "returned")

\* a call with three attempts has returned None after sleeping twice, the
\* second time twice as long
C25_Witness ==
    /\ retry.pc = "returned"
    /\ retry.result = "None"
    /\ Len(retry.tried) = 3
    /\ Len(retry.slept) = 2
    /\ retry.slept[2] = 2 * retry.slept[1]
    /\ \E i \in DOMAIN retry.tried : retry.tried[i] = "raise"

\* C24: the escalation alert is sent on a cycle if and only if that cycle's
\* scrape failed and it is at least the max_errors-th consecutive failed
\* scrape; system_errors is the number of failed scrapes since the last
\* successful one (reset by every successful scrape, raised only by failed
\* scrapes).
C24_AlertIffFifthConsecutiveFailure ==
    /\ system_errors = consecutive_failed_scrapes
    /\ job.name = "scrape_and_analyze" =>
           (job.system_alert <=>
                /\ job.ran
                /\ NotScanData(job.scan_data)
                /\ consecutive_failed_scrapes >= max_errors)

\* C26: every run of send_shift_summary computes the summaries of the ending
\* shift and then resets the trackers: after the job every known location has
\* an empty tracker, so no aggregate is carried into the next shift.
C26_EveryShiftSummaryResets ==
    [][send_shift_summary =>
          /\ job'.report = GetLocationSummaries(location_trackers)
          /\ job'.reset
          /\ location_trackers' = ResetShiftData(location_trackers)
          /\ \A l \in DOMAIN location_trackers' :
                 location_trackers'[l] = NewTracker]_vars

\* C27: the summaries the 30-minute report hands to the notifier contain a
\* location only if one of its episodes was detected within the last
\* ReportMinutes minutes.
C27_ReportOnlyRecentLocations ==
    [][(send_30_minute_report /\ job'.ran) =>
          \A l \in DOMAIN job'.report :
              \E i \in DOMAIN DowntimesAt(location_trackers, l) :
                  location_trackers[l].downtimes[i].detected_at >= now - ReportMinutes]_vars

\* a step of scrape_and_analyze that went past the shift check: it leaves its
\* job record, and the only other step that keeps such a record moves the clock
CycleStep ==
    /\ job'.name = "scrape_and_analyze"
    /\ job'.ran
    /\ now' = now

\* C29: a cycle whose scrape gives an empty list is handled like one whose
\* scrape gives None: system_errors is incremented, the escalation alert is
\* sent when the count has reached max_errors, and the raw scans are not
\* stored, process_scans is not called (the trackers stay as they are) and
\* the shift-end check is not made.
C29_EmptyScrapeHandledAsFailure ==
    [][(CycleStep /\ job'.scan_data = ScanData(FALSE, <<>>)) =>
          /\ system_errors' = system_errors + 1
          /\ job'.system_alert <=> (system_errors' >= max_errors)
          /\ ~job'.stored /\ ~job'.analyzed /\ ~job'.checked
          /\ job'.downtime_alerts = <<>> /\ job'.shift_alerts = {}
          /\ location_trackers' = location_trackers
          /\ \A active \in BOOLEAN :
               \E e \in { ScrapeAndAnalyze(location_trackers, system_errors, active,
                                           ScanData(FALSE, <<>>), now) } :
               \E n \in { ScrapeAndAnalyze(location_trackers, system_errors, active,
                                           ScanData(TRUE, <<>>), now) } :
                   /\ e.lt = n.lt
                   /\ e.system_errors = n.system_errors
                   /\ [e.job EXCEPT !.scan_data = n.job.scan_data] = n.job]_vars

\* an empty scrape was the max_errors-th failure in a row or later and the
\* escalation alert was sent
C29_Witness ==
    /\ job.name = "scrape_and_analyze"
    /\ job.ran
    /\ job.scan_data = ScanData(FALSE, <<>>)
    /\ job.system_alert
    /\ system_errors >= max_errors

\* C30: while a location's total_downtime exceeds shift_end_threshold (it
\* stays so until reset_shift_data), every cycle of scrape_and_analyze whose
\* scrape gave records hands a shift-end alert for that location to the
\* notifier, whether or not the cycle added an episode.
C30_AlertRepeatedEveryCycle ==
    [][(CycleStep /\ ~NotScanData(job'.scan_data)) =>
          \A l \in DOMAIN location_trackers :
              OverThreshold(location_trackers[l].total_downtime, shift_end_threshold) =>
                  /\ job'.checked
                  /\ \E alert \in job'.shift_alerts : alert.location = l]_vars

\* a cycle that brought only the scan T006 at GA2, which adds no episode,
\* sent the alert for GA2 again
C30_Witness ==
    /\ job.name = "scrape_and_analyze"
    /\ job.ran
    /\ job.scan_data = ScanData(FALSE, << Scan("GA2", "T006", "INDUCT", T0) >>)
    /\ job.downtime_alerts = <<>>
    /\ \E alert \in job.shift_alerts : alert.location = "GA2"

====
